---- MODULE Spec2Model ----
(***************************************************************************)
(* Model of examples/economy/firm.py: the Firm agent and its variants.      *)
(* A firm's state dict is a record firm[f]; each coroutine of a firm is a   *)
(* frame frame[f] whose pc names the yield point it is suspended at.  Every *)
(* cross-agent request (worker.get, worker.call, employer.call) is a step   *)
(* of its own, so that other agents interleave exactly at the yield points. *)
(***************************************************************************)
EXTENDS Integers, Sequences, FiniteSets, TLC

\* ---------------------------------------------------------------- bounds
NumWorkers == 2
MaxCalls == 4
MaxDayCalls == 4
MaxPurchases == 2
MaxOutcomeCalls == 4
MaxReads == 1
MaxTarget == 2
MaxTurnoverCalls == 3

Workers == 1..NumWorkers
Firms == {"A", "B"}
None == "None"

VARIABLES
    firm,     \* firm[f]: the state dict of firm f (firm.py 12-29)
    param,    \* param[f]: the constructor arguments and class of firm f (firm.py 31-37)
    person,   \* person[w]: the worker agent's employer and wage
    frame,    \* frame[f]: the coroutine of firm f that is running or was last run
    calls     \* how many operations the driver has started

vars == <<firm, param, person, frame, calls>>

\* ---------------------------------------------------------------- arithmetic
Min(a, b) == IF a <= b THEN a ELSE b
Max(a, b) == IF a >= b THEN a ELSE b
Abs(a) == IF a < 0 THEN 0 - a ELSE a

RECURSIVE GCD(_, _)
GCD(a, b) == IF b = 0 THEN a ELSE GCD(b, a % b)

\* Python's float money values, kept exact as normalised fractions n/d, d > 0.
Rat(n, d) == LET g == GCD(Abs(n), d) IN [n |-> n \div g, d |-> d \div g]
RatInt(k) == [n |-> k, d |-> 1]
RatAdd(x, y) == Rat(x.n * y.d + y.n * x.d, x.d * y.d)
RatSub(x, y) == Rat(x.n * y.d - y.n * x.d, x.d * y.d)
RatMul(x, y) == Rat(x.n * y.n, x.d * y.d)
RatLeq(x, y) == x.n * y.d <= y.n * x.d
RatMin(x, y) == IF RatLeq(x, y) THEN x ELSE y
RatMax(x, y) == IF RatLeq(y, x) THEN x ELSE y
\* math.floor(x / y) for y > 0
RatFloorDiv(x, y) == (x.n * y.d) \div (x.d * y.n)

\* ---------------------------------------------------------------- lists
Range(s) == {s[i] : i \in 1..Len(s)}

\* list.remove(x): drops the first occurrence of x (the caller checks x is there)
remove(s, x) ==
    LET k == CHOOSE i \in 1..Len(s) : s[i] = x /\ \A j \in 1..(i - 1) : s[j] # x
    IN  [i \in 1..(Len(s) - 1) |-> IF i < k THEN s[i] ELSE s[i + 1]]

\* a set of workers as a list, in increasing order
RECURSIVE AsList(_)
AsList(S) ==
    IF S = {} THEN <<>>
    ELSE LET m == CHOOSE x \in S : \A y \in S : x <= y
         IN  <<m>> \o AsList(S \ {m})

\* ---------------------------------------------------------------- construction
FirmState == [
    desired_supply |-> 1, desired_equipment |-> 0, worker_change |-> 0,
    workers |-> <<>>, cash |-> RatInt(50000), revenue |-> RatInt(0),
    costs |-> RatInt(0), price |-> RatInt(0), profit |-> 0, prev_profit |-> 0,
    leftover |-> 0, supply |-> 0, n_sold |-> 0, profit_margin |-> 1,
    equipment |-> 0, materials |-> 0]

PersonState == [employer |-> None, wage |-> 0]

\* what a call was given: the firm's state at the call and the arguments
NoEntry == [s |-> FirmState, applicants |-> <<>>, wage |-> 0,
            price |-> RatInt(0), supply |-> 0, quantity |-> 0,
            n_workers |-> 0]

FrameIdle == [
    op |-> "none", pc |-> "idle", prev_op |-> "none",
    applicants |-> <<>>, wage |-> 0, hired |-> <<>>,
    worker |-> 0, employer |-> None, i |-> 0,
    entry |-> NoEntry, state |-> 0 - 1, quits |-> <<>>, ret |-> <<>>]

\* the frame of a new call of op by firm f
NewFrame(f, op) == [FrameIdle EXCEPT
    !.op = op, !.prev_op = frame[f].op, !.entry.s = firm[f]]

Params(kind, lcpg, mcpg, lpe, lpw, si, pi, wi) == [
    kind |-> kind,
    labor_cost_per_good |-> lcpg, material_cost_per_good |-> mcpg,
    labor_per_equipment |-> lpe, labor_per_worker |-> lpw,
    supply_increment |-> si, profit_increment |-> pi, wage_increment |-> wi]

\* the coroutine returns: its locals worker, employer and the iterator are gone
Return(fr, ret) == [fr EXCEPT !.pc = "done", !.ret = ret,
                              !.worker = 0, !.employer = None, !.i = 0]

\* the coroutine ends with an exception
Raise(fr) == [fr EXCEPT !.pc = "failed", !.worker = 0, !.employer = None, !.i = 0]

\* the driver may start a new operation of f
CanStart(f, bound) == frame[f].pc \in {"idle", "done"} /\ calls < bound

\* ---------------------------------------------------------------- labor and capacity
\* Firm._worker_labor
_worker_labor(s, p) == p.labor_per_worker * Len(s.workers)

\* Firm._equipment_labor
_equipment_labor(s, p) == Min(Len(s.workers), s.equipment) * p.labor_per_equipment

\* Firm._labor
_labor(s, p) == _worker_labor(s, p) + _equipment_labor(s, p)

\* Firm._labor_for_equipment
_labor_for_equipment(s, p, equipment) ==
    _worker_labor(s, p) + Min(Len(s.workers), equipment) * p.labor_per_equipment

\* math.floor of a fraction
Floor(x) == x.n \div x.d

\* _production_capacity taking the larger of the two limits
_production_capacity_Max(s, p) ==
    IF p.kind = "ConsumerGoodFirm"
    THEN Floor(RatMax(Rat(_labor(s, p), p.labor_cost_per_good),
                      Rat(s.materials, p.material_cost_per_good)))
    ELSE Floor(Rat(_labor(s, p), p.labor_cost_per_good))

\* Firm._production_capacity, and ConsumerGoodFirm's override
_production_capacity(s, p) ==
    IF p.kind = "ConsumerGoodFirm"
    THEN Floor(RatMin(Rat(_labor(s, p), p.labor_cost_per_good),
                      Rat(s.materials, p.material_cost_per_good)))
    ELSE Floor(Rat(_labor(s, p), p.labor_cost_per_good))

\* ---------------------------------------------------------------- outcome and policy
\* curren with rule 2 asking for a loss: a profit of exactly 0 matches no rule
curren_StrictLoss(s) ==
    IF s.n_sold = 0 THEN 0
    ELSE IF s.n_sold > 0 /\ s.leftover > 0 THEN 1
    ELSE IF s.n_sold > 0 /\ s.leftover = 0 /\ s.profit < 0 THEN 2
    ELSE IF s.n_sold > 0 /\ s.leftover = 0 /\ s.profit > 0
            /\ s.profit - s.prev_profit < 0 THEN 3
    ELSE IF s.n_sold > 0 /\ s.leftover = 0 /\ s.profit > 0
            /\ s.profit - s.prev_profit >= 0 THEN 4
    ELSE -1

\* Firm.curren; Python's None (no branch taken) is -1
curren(s) ==
    IF s.n_sold = 0 THEN 0
    ELSE IF s.n_sold > 0 /\ s.leftover > 0 THEN 1
    ELSE IF s.n_sold > 0 /\ s.leftover = 0 /\ s.profit <= 0 THEN 2
    ELSE IF s.n_sold > 0 /\ s.leftover = 0 /\ s.profit > 0
            /\ s.profit - s.prev_profit < 0 THEN 3
    ELSE IF s.n_sold > 0 /\ s.leftover = 0 /\ s.profit > 0
            /\ s.profit - s.prev_profit >= 0 THEN 4
    ELSE -1

\* Firm.actions, with action.get('profit_margin', 0) filled in
actions(p) == <<
    [supply |-> p.supply_increment, profit_margin |-> 0],
    [supply |-> 0 - p.supply_increment, profit_margin |-> 0],
    [supply |-> p.supply_increment, profit_margin |-> p.profit_increment],
    [supply |-> p.supply_increment, profit_margin |-> 0 - p.profit_increment],
    [supply |-> 0 - p.supply_increment, profit_margin |-> p.profit_increment],
    [supply |-> 0 - p.supply_increment, profit_margin |-> 0 - p.profit_increment] >>

\* QLearner.choose_action: the action ids the policy may answer for a state;
\* states_actions has the keys 0..4 only, any other state aborts the step
choose_action(state) == IF state \in 0..4 THEN 0..5 ELSE {}

\* Firm.pay
pay(s, cost) == [s EXCEPT !.cash = RatSub(@, cost), !.costs = RatAdd(@, cost)]

\* ---------------------------------------------------------------- workers (other agents)
\* the worker's answer to get('employer')
get_employer(w) == person[w].employer

\* the worker's handler of call('quit')
quit(w) == [person EXCEPT ![w].employer = None]

\* the worker's handler of call('hire', AgentProxy(f), wage)
worker_hire(w, f, wage) == [person EXCEPT ![w] = [employer |-> f, wage |-> wage]]

\* ---------------------------------------------------------------- firing
\* Firm.fire, up to its yield: self['workers'].remove(worker)
fire(e, worker) == [firm EXCEPT ![e].workers = remove(@, worker)]

\* employer.call('fire', worker) arrives at the employer of frame[f].worker;
\* list.remove raises ValueError when the worker is not in the roster, and the
\* exception ends the caller's coroutine
call_fire(f) ==
    /\ frame[f].pc = "fire"
    /\ LET e == frame[f].employer
           w == frame[f].worker
       IN  IF w \in Range(firm[e].workers)
           THEN /\ firm' = fire(e, w)
                /\ frame' = [frame EXCEPT ![f].pc = "quit"]
           ELSE /\ frame' = [frame EXCEPT ![f] = Raise(@)]
                /\ UNCHANGED firm
    /\ UNCHANGED <<param, person, calls>>

\* worker.call('quit') of Firm.fire arrives at the worker; fire returns to the
\* coroutine that asked for it
call_quit(f) ==
    /\ frame[f].pc = "quit"
    /\ person' = quit(frame[f].worker)
    /\ frame' = [frame EXCEPT
           ![f].quits = Append(@, frame[f].worker),
           ![f].pc = CASE frame[f].op = "hire" -> "hire_call"
                       [] frame[f].op = "shutdown" -> "shutdown_next"
                       [] OTHER -> "spt_next"]
    /\ UNCHANGED <<firm, param, calls>>

\* ---------------------------------------------------------------- hire
\* HireLoop with the loop test off by one: hires while worker_change >= 0
HireLoop_OneTooMany(f, s, fr) ==
    IF s.worker_change >= 0 /\ fr.applicants # <<>>
    THEN [fr EXCEPT !.pc = "hire_get"]
    ELSE LET wage == IF s.worker_change > 0
                     THEN fr.wage + param[f].wage_increment ELSE fr.wage
         IN  Return([fr EXCEPT !.wage = wage], <<fr.hired, s.worker_change, wage>>)

\* HireLoop raising the wage although no vacancy is left
HireLoop_WageRaised(f, s, fr) ==
    IF s.worker_change > 0 /\ fr.applicants # <<>>
    THEN [fr EXCEPT !.pc = "hire_get"]
    ELSE LET wage == IF s.worker_change >= 0
                     THEN fr.wage + param[f].wage_increment ELSE fr.wage
         IN  Return([fr EXCEPT !.wage = wage], <<fr.hired, s.worker_change, wage>>)

\* the loop test of Firm.hire and, when it fails, lines 93-96
HireLoop(f, s, fr) ==
    IF s.worker_change > 0 /\ fr.applicants # <<>>
    THEN [fr EXCEPT !.pc = "hire_get"]
    ELSE LET wage == IF s.worker_change > 0
                     THEN fr.wage + param[f].wage_increment ELSE fr.wage
         IN  Return([fr EXCEPT !.wage = wage], <<fr.hired, s.worker_change, wage>>)

\* Firm.hire is called
hire(f, applicants, wage) ==
    /\ frame' = [frame EXCEPT ![f] =
           HireLoop(f, firm[f],
                    [NewFrame(f, "hire") EXCEPT
                        !.applicants = applicants, !.wage = wage,
                        !.entry.applicants = applicants, !.entry.wage = wage])]
    /\ calls' = calls + 1
    /\ UNCHANGED <<firm, param, person>>

\* random.choice(applicants), and the worker answers get('employer')
hire_get(f) ==
    /\ frame[f].pc = "hire_get"
    /\ \E w \in Range(frame[f].applicants) :
          LET employer == get_employer(w)
          IN  frame' = [frame EXCEPT
                  ![f].worker = w, ![f].employer = employer,
                  ![f].pc = IF employer # None THEN "fire" ELSE "hire_call"]
    /\ UNCHANGED <<firm, param, person, calls>>

\* worker.call('hire', AgentProxy(self), wage) arrives at the worker
hire_call(f) ==
    /\ frame[f].pc = "hire_call"
    /\ person' = worker_hire(frame[f].worker, f, frame[f].wage)
    /\ frame' = [frame EXCEPT ![f].pc = "hire_resume"]
    /\ UNCHANGED <<firm, param, calls>>

\* Firm.hire resumes: lines 88-91, then the loop test
hire_resume(f) ==
    /\ frame[f].pc = "hire_resume"
    /\ LET w == frame[f].worker
           s == [firm[f] EXCEPT !.workers = Append(@, w), !.worker_change = @ - 1]
           fr == [frame[f] EXCEPT !.applicants = remove(@, w), !.hired = Append(@, w)]
       IN  /\ firm' = [firm EXCEPT ![f] = s]
           /\ frame' = [frame EXCEPT ![f] = HireLoop(f, s, fr)]
    /\ UNCHANGED <<param, person, calls>>

\* ---------------------------------------------------------------- shutdown
\* one step of `for worker in self['workers']`: the list iterator at index i
\* yields workers[i] while i < len(workers); self.fire runs up to its yield
ShutdownLoop(f, fr) ==
    IF fr.i < Len(firm[f].workers)
    THEN LET worker == firm[f].workers[fr.i + 1]
         IN  /\ firm' = fire(f, worker)
             /\ frame' = [frame EXCEPT ![f] =
                    [fr EXCEPT !.i = @ + 1, !.worker = worker, !.pc = "quit"]]
    ELSE /\ frame' = [frame EXCEPT ![f] = Return(fr, <<>>)]
         /\ UNCHANGED firm

\* Firm.shutdown is called
shutdown(f) ==
    /\ ShutdownLoop(f, NewFrame(f, "shutdown"))
    /\ calls' = calls + 1
    /\ UNCHANGED <<param, person>>

\* Firm.shutdown resumes after a fire
shutdown_next(f) ==
    /\ frame[f].pc = "shutdown_next"
    /\ ShutdownLoop(f, frame[f])
    /\ UNCHANGED <<param, person, calls>>

\* ---------------------------------------------------------------- set_production_target
\* FireLoop stopping one short: it fires while worker_change < -1
FireLoop_OneTooFew(f, s, fr) ==
    IF s.worker_change < 0 - 1
    THEN IF s.workers = <<>>
         THEN /\ firm' = [firm EXCEPT ![f] = s]
              /\ frame' = [frame EXCEPT ![f] = Raise(fr)]
         ELSE \E worker \in Range(s.workers) :
              /\ firm' = [firm EXCEPT ![f] = [s EXCEPT !.workers = remove(@, worker)]]
              /\ frame' = [frame EXCEPT ![f] = [fr EXCEPT !.worker = worker, !.pc = "quit"]]
    ELSE /\ firm' = [firm EXCEPT ![f] = s]
         /\ frame' = [frame EXCEPT ![f] = Return(fr, <<s.worker_change, fr.wage>>)]

\* lines 238-245: the firing loop up to its next yield, or the return
FireLoop(f, s, fr) ==
    IF s.worker_change < 0
    THEN IF s.workers = <<>>
         THEN \* random.choice of an empty list raises IndexError
              /\ firm' = [firm EXCEPT ![f] = s]
              /\ frame' = [frame EXCEPT ![f] = Raise(fr)]
         ELSE \E worker \in Range(s.workers) :
              /\ firm' = [firm EXCEPT ![f] = [s EXCEPT !.workers = remove(@, worker)]]
              /\ frame' = [frame EXCEPT ![f] = [fr EXCEPT !.worker = worker, !.pc = "quit"]]
    ELSE /\ firm' = [firm EXCEPT ![f] = s]
         /\ frame' = [frame EXCEPT ![f] = Return(fr, <<s.worker_change, fr.wage>>)]

\* PlanTarget applying the action to desired_supply without the floor of 1
PlanTarget_NoFloor(s, p, action, n_workers, n_equip) ==
    LET s1 == [s EXCEPT !.prev_profit = s.profit, !.leftover = s.supply]
        act == actions(p)[action + 1]
        s2 == [s1 EXCEPT
                  !.desired_supply = s1.desired_supply + act.supply,
                  !.profit_margin = @ + act.profit_margin,
                  !.supply = 0, !.materials = 0, !.n_sold = 0,
                  !.revenue = RatInt(0), !.costs = RatInt(0)]
    IN  [s2 EXCEPT
            !.worker_change = Max(n_workers, 0) - Len(s2.workers),
            !.desired_equipment = s2.equipment + Max(0, n_equip - s2.equipment)]

\* PlanTarget taking the leftover after the supply has expired
PlanTarget_LeftoverAfterReset(s, p, action, n_workers, n_equip) ==
    LET s1 == [s EXCEPT !.prev_profit = s.profit]
        act == actions(p)[action + 1]
        s2 == [s1 EXCEPT
                  !.desired_supply = Max(1, s1.desired_supply + act.supply),
                  !.profit_margin = @ + act.profit_margin,
                  !.supply = 0, !.materials = 0, !.n_sold = 0,
                  !.revenue = RatInt(0), !.costs = RatInt(0)]
    IN  [s2 EXCEPT
            !.leftover = s2.supply,
            !.worker_change = Max(n_workers, 0) - Len(s2.workers),
            !.desired_equipment = s2.equipment + Max(0, n_equip - s2.equipment)]

\* lines 207-236 on state s: action is the policy's answer, (n_workers, wage,
\* n_equip) the optimizer's
PlanTarget(s, p, action, n_workers, n_equip) ==
    LET s1 == [s EXCEPT !.prev_profit = s.profit, !.leftover = s.supply]
        act == actions(p)[action + 1]
        s2 == [s1 EXCEPT
                  !.desired_supply = Max(1, s1.desired_supply + act.supply),
                  !.profit_margin = @ + act.profit_margin,
                  !.supply = 0, !.materials = 0, !.n_sold = 0,
                  !.revenue = RatInt(0), !.costs = RatInt(0)]
    IN  [s2 EXCEPT
            !.worker_change = Max(n_workers, 0) - Len(s2.workers),
            !.desired_equipment = s2.equipment + Max(0, n_equip - s2.equipment)]

\* Firm.set_production_target is called
set_production_target(f, action, n_workers, wage, n_equip) ==
    /\ LET s1 == [firm[f] EXCEPT !.prev_profit = firm[f].profit,
                                 !.leftover = firm[f].supply]
           fr == [NewFrame(f, "set_production_target") EXCEPT
                     !.wage = wage, !.entry.wage = wage, !.state = curren(s1),
                     !.entry.n_workers = n_workers]
       IN  IF action \in choose_action(curren(s1))
           THEN FireLoop(f, PlanTarget(firm[f], param[f], action, n_workers, n_equip), fr)
           ELSE /\ choose_action(curren(s1)) = {}
                /\ firm' = [firm EXCEPT ![f] = s1]
                /\ frame' = [frame EXCEPT ![f] = Raise(fr)]
    /\ calls' = calls + 1
    /\ UNCHANGED <<param, person>>

\* Firm.set_production_target resumes after a fire: line 242, then the loop
spt_next(f) ==
    /\ frame[f].pc = "spt_next"
    /\ FireLoop(f, [firm[f] EXCEPT !.worker_change = @ + 1], frame[f])
    /\ UNCHANGED <<param, person, calls>>

\* ---------------------------------------------------------------- the labor market
\* two firms of the same configuration, no worker employed
InitMarket ==
    /\ firm = [f \in Firms |-> FirmState]
    /\ param = [f \in Firms |-> Params("Firm", 1, 1, 1, 1, 1, 1, 1)]
    /\ person = [w \in Workers |-> PersonState]
    /\ frame = [f \in Firms |-> FrameIdle]
    /\ calls = 0

\* the steps that answer a suspended coroutine of firm f
Resume(f) ==
    \/ hire_get(f)
    \/ call_fire(f)
    \/ call_quit(f)
    \/ hire_call(f)
    \/ hire_resume(f)
    \/ shutdown_next(f)
    \/ spt_next(f)

NextMarket ==
    \/ \E f \in Firms, n_workers \in (0 - 1)..MaxTarget :
          CanStart(f, MaxCalls) /\ set_production_target(f, 1, n_workers, 10, 0)
    \/ \E f \in Firms, A \in SUBSET Workers :
          CanStart(f, MaxCalls) /\ hire(f, AsList(A), 10)
    \/ \E f \in Firms : CanStart(f, MaxCalls) /\ shutdown(f)
    \/ \E f \in Firms : Resume(f)

SpecMarket == InitMarket /\ [][NextMarket]_vars

\* ---------------------------------------------------------------- a settled labor market
\* the labor market between two rounds: every worker is in the roster of its
\* employer, or unemployed, and no firm has a vacancy
Employments == [Workers -> Firms \cup {None}]

InitTurnover ==
    /\ \E employment \in Employments :
          /\ firm = [f \in Firms |->
                 [FirmState EXCEPT
                     !.workers = AsList({w \in Workers : employment[w] = f})]]
          /\ person = [w \in Workers |->
                 IF employment[w] = None THEN PersonState
                 ELSE [employer |-> employment[w], wage |-> 10]]
    /\ param = [f \in Firms |-> Params("Firm", 1, 1, 1, 1, 1, 1, 1)]
    /\ frame = [f \in Firms |-> FrameIdle]
    /\ calls = 0

NextTurnover ==
    \/ \E f \in Firms, n_workers \in (0 - 1)..MaxTarget :
          CanStart(f, MaxTurnoverCalls) /\ set_production_target(f, 1, n_workers, 10, 0)
    \/ \E f \in Firms, A \in SUBSET Workers :
          CanStart(f, MaxTurnoverCalls) /\ hire(f, AsList(A), 10)
    \/ \E f \in Firms : CanStart(f, MaxTurnoverCalls) /\ shutdown(f)
    \/ \E f \in Firms : Resume(f)

SpecTurnover == InitTurnover /\ [][NextTurnover]_vars

\* ---------------------------------------------------------------- purchases
\* n_equipment with the budget not floored at 0
n_equipment_NegativeBudget(s, price) ==
    LET total_equipment_cost == RatMul(RatInt(s.desired_equipment - s.equipment), price)
    IN  IF total_equipment_cost.n = 0
        THEN Max(0, s.desired_equipment - s.equipment)
        ELSE LET equipment_budget == RatMin(s.cash, total_equipment_cost)
             IN  RatFloorDiv(equipment_budget, price)

\* n_equipment spending all the cash, whatever the shortfall
n_equipment_AllCash(s, price) ==
    LET total_equipment_cost == RatMul(RatInt(s.desired_equipment - s.equipment), price)
    IN  IF total_equipment_cost.n = 0
        THEN Max(0, s.desired_equipment - s.equipment)
        ELSE LET equipment_budget == RatMax(RatInt(0), s.cash)
             IN  RatFloorDiv(equipment_budget, price)

\* purchase_equipment lines 185-193: how much equipment the firm asks for
n_equipment(s, price) ==
    LET total_equipment_cost == RatMul(RatInt(s.desired_equipment - s.equipment), price)
    IN  IF total_equipment_cost.n = 0
        THEN Max(0, s.desired_equipment - s.equipment)
        ELSE LET equipment_budget == RatMax(RatInt(0), RatMin(s.cash, total_equipment_cost))
             IN  RatFloorDiv(equipment_budget, price)

\* Firm.purchase_equipment, once the supplier has answered (price, supply); the
\* supplier's sell changes nothing of the firm, and no other operation of the
\* firm runs while it waits for the supplier
purchase_equipment(f, price, supply) ==
    /\ LET s == firm[f]
           to_purchase == Min(supply, n_equipment(s, price))
           s1 == pay([s EXCEPT !.equipment = @ + to_purchase],
                     RatMul(RatInt(to_purchase), price))
       IN  /\ firm' = [firm EXCEPT ![f] = s1]
           /\ frame' = [frame EXCEPT ![f] =
                  [NewFrame(f, "purchase_equipment") EXCEPT
                      !.entry.price = price, !.entry.supply = supply, !.pc = "done",
                      !.ret = <<s1.desired_equipment - s1.equipment, to_purchase>>]]
    /\ calls' = calls + 1
    /\ UNCHANGED <<param, person>>

\* n_materials spending up to the shortfall's cost, whatever the cash
n_materials_IgnoresCash(s, p, price) ==
    LET required_materials == p.material_cost_per_good * s.desired_supply
        total_material_cost == RatMul(RatInt(required_materials - s.materials), price)
    IN  IF total_material_cost.n = 0
        THEN Max(0, required_materials - s.materials)
        ELSE LET material_budget == RatMax(RatInt(0), total_material_cost)
             IN  RatFloorDiv(material_budget, price)

\* purchase_materials lines 264-273 on the state with desired_supply adjusted
n_materials(s, p, price) ==
    LET required_materials == p.material_cost_per_good * s.desired_supply
        total_material_cost == RatMul(RatInt(required_materials - s.materials), price)
    IN  IF total_material_cost.n = 0
        THEN Max(0, required_materials - s.materials)
        ELSE LET material_budget == RatMax(RatInt(0), RatMin(s.cash, total_material_cost))
             IN  RatFloorDiv(material_budget, price)

\* ConsumerGoodFirm.purchase_materials, once the supplier has answered
purchase_materials(f, price, supply) ==
    /\ param[f].kind = "ConsumerGoodFirm"
    /\ LET p == param[f]
           capacity_given_labor ==
               Floor(Rat(_labor_for_equipment(firm[f], p, firm[f].desired_equipment),
                         p.labor_cost_per_good))
           s == [firm[f] EXCEPT !.desired_supply = Min(capacity_given_labor, @)]
           required_materials == p.material_cost_per_good * s.desired_supply
           to_purchase == Min(supply, n_materials(s, p, price))
           s1 == pay([s EXCEPT !.materials = @ + to_purchase],
                     RatMul(RatInt(to_purchase), price))
       IN  /\ firm' = [firm EXCEPT ![f] = s1]
           /\ frame' = [frame EXCEPT ![f] =
                  [NewFrame(f, "purchase_materials") EXCEPT
                      !.entry.price = price, !.entry.supply = supply, !.pc = "done",
                      !.ret = <<required_materials - s1.materials, to_purchase>>]]
    /\ calls' = calls + 1
    /\ UNCHANGED <<param, person>>

\* ---------------------------------------------------------------- produce and sell
\* the sum of w.get('wage') over the roster
RECURSIVE Wages(_)
Wages(workers) ==
    IF workers = <<>> THEN 0 ELSE person[Head(workers)].wage + Wages(Tail(workers))

\* Firm.produce; no other agent changes this firm's roster while it asks the
\* workers for their wage
produce(f) ==
    /\ LET s == firm[f]
           supply == Max(1, Min(s.desired_supply, _production_capacity(s, param[f])))
           wages == RatInt(Wages(s.workers))
           costs == RatAdd(s.costs, wages)
           cost_per_unit == RatMul(costs, Rat(1, supply))
           price == RatMax(RatInt(0), RatAdd(cost_per_unit, RatInt(s.profit_margin)))
       IN  /\ firm' = [firm EXCEPT ![f] =
                  [s EXCEPT !.supply = supply, !.costs = costs,
                            !.cash = RatSub(@, wages), !.price = price]]
           /\ frame' = [frame EXCEPT ![f] =
                  [NewFrame(f, "produce") EXCEPT !.pc = "done", !.ret = <<supply, price>>]]
    /\ calls' = calls + 1
    /\ UNCHANGED <<param, person>>

\* sell handing over the demanded quantity whatever the stock
sell_Oversell(f, quantity) ==
    /\ LET s == firm[f]
           n_sold == quantity
           revenue == RatMul(s.price, RatInt(n_sold))
       IN  /\ firm' = [firm EXCEPT ![f] =
                  [s EXCEPT !.supply = @ - n_sold, !.n_sold = @ + n_sold,
                            !.revenue = revenue, !.cash = RatAdd(@, revenue)]]
           /\ frame' = [frame EXCEPT ![f] =
                  [NewFrame(f, "sell") EXCEPT
                      !.entry.quantity = quantity, !.pc = "done", !.ret = <<n_sold>>]]
    /\ calls' = calls + 1
    /\ UNCHANGED <<param, person>>

\* Firm.sell
sell(f, quantity) ==
    /\ LET s == firm[f]
           n_sold == Min(s.supply, quantity)
           revenue == RatMul(s.price, RatInt(n_sold))
       IN  /\ firm' = [firm EXCEPT ![f] =
                  [s EXCEPT !.supply = @ - n_sold, !.n_sold = @ + n_sold,
                            !.revenue = revenue, !.cash = RatAdd(@, revenue)]]
           /\ frame' = [frame EXCEPT ![f] =
                  [NewFrame(f, "sell") EXCEPT
                      !.entry.quantity = quantity, !.pc = "done", !.ret = <<n_sold>>]]
    /\ calls' = calls + 1
    /\ UNCHANGED <<param, person>>

\* ---------------------------------------------------------------- one firm's days
\* what the driver's markets answer with, and the policy's and optimizer's answers
Prices == {RatInt(0), Rat(3, 2)}
Supplies == {1, 3}
Demands == {0, 1, 2}
DayActions == {1, 2}
Pools == {1..k : k \in 0..NumWorkers}

InitDay ==
    /\ firm = [f \in Firms |-> FirmState]
    /\ \E kind \in {"Firm", "ConsumerGoodFirm"} :
          param = [f \in Firms |-> Params(kind, 1, 1, 1, 1, 1, 1, 1)]
    /\ person = [w \in Workers |-> PersonState]
    /\ frame = [f \in Firms |-> FrameIdle]
    /\ calls = 0

\* firm A alone, its operations called in any order
NextDay ==
    \/ \E action \in DayActions, n_workers \in (0 - 1)..MaxTarget, n_equip \in 0..1 :
          CanStart("A", MaxDayCalls)
          /\ set_production_target("A", action, n_workers, 2, n_equip)
    \/ \E A \in Pools : CanStart("A", MaxDayCalls) /\ hire("A", AsList(A), 2)
    \/ \E price \in Prices, supply \in Supplies :
          CanStart("A", MaxDayCalls) /\ purchase_equipment("A", price, supply)
    \/ \E price \in Prices, supply \in Supplies :
          CanStart("A", MaxDayCalls) /\ purchase_materials("A", price, supply)
    \/ CanStart("A", MaxDayCalls) /\ produce("A")
    \/ \E quantity \in Demands : CanStart("A", MaxDayCalls) /\ sell("A", quantity)
    \/ hire_get("A")
    \/ call_fire("A")
    \/ call_quit("A")
    \/ hire_call("A")
    \/ hire_resume("A")
    \/ spt_next("A")

SpecDay == InitDay /\ [][NextDay]_vars

\* ---------------------------------------------------------------- purchases from any purse
\* the states a goods-producing firm can be in when the driver sends it to a
\* supplier: any cash (wages and purchases lower it without limit), equipment
\* up to the target, materials left from an earlier purchase of the day, the
\* roster as the labor market left it
PurseCash == {RatInt(0 - 10), RatInt(0), Rat(7, 2), RatInt(100)}
PurseEquipment == {<<0, 0>>, <<2, 0>>, <<2, 1>>, <<2, 2>>}
PurseMaterials == {0, 2}
PurseSupply == {1, 5, 10}
PurseRosters == {<<>>, <<1, 2>>}
MarketPrices == {RatInt(0), Rat(3, 2), RatInt(10)}
MarketSupplies == {0, 2, 50}

InitPurchase ==
    /\ \E cash \in PurseCash, eq \in PurseEquipment, materials \in PurseMaterials,
          desired_supply \in PurseSupply, workers \in PurseRosters :
          /\ firm = [f \in Firms |->
                 IF f = "A"
                 THEN [FirmState EXCEPT
                          !.cash = cash, !.desired_equipment = eq[1], !.equipment = eq[2],
                          !.materials = materials, !.desired_supply = desired_supply,
                          !.workers = workers]
                 ELSE FirmState]
          /\ person = [w \in Workers |->
                 IF w \in Range(workers) THEN [employer |-> "A", wage |-> 2]
                 ELSE PersonState]
    /\ param = [f \in Firms |-> Params("ConsumerGoodFirm", 1, 2, 1, 10, 1, 1, 1)]
    /\ frame = [f \in Firms |-> FrameIdle]
    /\ calls = 0

NextPurchase ==
    \/ \E price \in MarketPrices, supply \in MarketSupplies :
          CanStart("A", MaxPurchases) /\ purchase_equipment("A", price, supply)
    \/ \E price \in MarketPrices, supply \in MarketSupplies :
          CanStart("A", MaxPurchases) /\ purchase_materials("A", price, supply)

SpecPurchase == InitPurchase /\ [][NextPurchase]_vars

\* ---------------------------------------------------------------- outcomes
\* firm.py never writes profit: to cover curren's whole domain the firm starts
\* with any profit and prev_profit, and produces and sells from there
Profits == (0 - 1)..2

InitOutcome ==
    /\ \E profit \in Profits, prev_profit \in Profits :
          firm = [f \in Firms |->
                     [FirmState EXCEPT !.profit = profit, !.prev_profit = prev_profit]]
    /\ param = [f \in Firms |-> Params("Firm", 1, 1, 1, 1, 1, 1, 1)]
    /\ person = [w \in Workers |-> PersonState]
    /\ frame = [f \in Firms |-> FrameIdle]
    /\ calls = 0

\* Firm.curren is read
read_curren(f) ==
    /\ frame' = [frame EXCEPT ![f] = Return(NewFrame(f, "curren"), <<curren(firm[f])>>)]
    /\ calls' = calls + 1
    /\ UNCHANGED <<firm, param, person>>

NextOutcome ==
    \/ \E action \in 0..5 :
          CanStart("A", MaxOutcomeCalls) /\ set_production_target("A", action, 0, 2, 0)
    \/ CanStart("A", MaxOutcomeCalls) /\ produce("A")
    \/ \E quantity \in Demands : CanStart("A", MaxOutcomeCalls) /\ sell("A", quantity)
    \/ CanStart("A", MaxOutcomeCalls) /\ read_curren("A")

SpecOutcome == InitOutcome /\ [][NextOutcome]_vars

\* ---------------------------------------------------------------- capacity
Costs == 1..3
Stocks == 0..6

InitCapacity ==
    /\ \E k \in 0..NumWorkers, equipment \in 0..3, materials \in Stocks :
          /\ firm = [f \in Firms |->
                 [FirmState EXCEPT !.workers = AsList(1..k), !.equipment = equipment,
                                   !.desired_equipment = equipment,
                                   !.materials = materials]]
          /\ person = [w \in Workers |->
                 IF w <= k THEN [employer |-> "A", wage |-> 2] ELSE PersonState]
    /\ \E lcpg \in Costs, mcpg \in Costs, lpe \in {0, 1, 3}, lpw \in {1, 2} :
          param = [f \in Firms |-> Params("ConsumerGoodFirm", lcpg, mcpg, lpe, lpw, 1, 1, 1)]
    /\ frame = [f \in Firms |-> FrameIdle]
    /\ calls = 0

\* the property _production_capacity is read
read_capacity(f) ==
    /\ frame' = [frame EXCEPT ![f] =
           Return(NewFrame(f, "_production_capacity"),
                  <<_production_capacity(firm[f], param[f])>>)]
    /\ calls' = calls + 1
    /\ UNCHANGED <<firm, param, person>>

NextCapacity ==
    \/ CanStart("A", MaxReads) /\ read_capacity("A")

SpecCapacity == InitCapacity /\ [][NextCapacity]_vars

\* ================================================================ claims
Done(f, op) == frame[f].op = op /\ frame[f].pc = "done"

\* how often x occurs in the list s
Count(s, x) == Cardinality({i \in 1..Len(s) : s[i] = x})

NoDuplicates(s) == \A i, j \in 1..Len(s) : s[i] = s[j] => i = j

\* the firms that hold worker w in their roster
Employers(w) == {f \in Firms : w \in Range(firm[f].workers)}

\* C1: once the hire() rounds of both firms have completed, every worker is in
\* the roster of at most one firm.
C1_OneRosterPerWorker ==
    (\A f \in Firms : Done(f, "hire"))
        => \A w \in Workers : Cardinality(Employers(w)) <= 1

\* C2: shutdown() run to completion leaves the roster empty, every worker
\* employed at the call has received exactly one quit notification, and a
\* shutdown() that follows a shutdown() issues no fire/quit at all.
C2_ShutdownReleasesAll ==
    \A f \in Firms :
        Done(f, "shutdown") =>
            /\ firm[f].workers = <<>>
            /\ \A w \in Range(frame[f].entry.s.workers) : Count(frame[f].quits, w) = 1
            /\ frame[f].prev_op = "shutdown" => frame[f].quits = <<>>

\* C3: hire() never hires a worker who was in this firm's roster when it was
\* called (such a worker is not in the hired list, so takes no vacancy), and no
\* roster ever holds the same worker twice.
C3_NeverHiresOwnWorker ==
    \A f \in Firms :
        /\ frame[f].op = "hire" =>
               Range(frame[f].hired) \cap Range(frame[f].entry.s.workers) = {}
        /\ NoDuplicates(firm[f].workers)

\* C4: in every call hire(applicants, wage) with v = worker_change at entry, the
\* applicant pool has shrunk by exactly the number of workers hired, that
\* number is at most max(v, 0), and the roster has grown by no more than it.
C4_HireBoundedByVacancies ==
    \A f \in Firms :
        frame[f].op = "hire" =>
            LET fr == frame[f]
                v == fr.entry.s.worker_change
            IN  /\ Len(fr.entry.applicants) - Len(fr.applicants) = Len(fr.hired)
                /\ Len(fr.hired) <= Max(v, 0)
                /\ Len(firm[f].workers) - Len(fr.entry.s.workers) <= Len(fr.hired)

\* a hire() call that filled both of its two vacancies has returned
C4_Witness ==
    \E f \in Firms :
        /\ Done(f, "hire")
        /\ frame[f].entry.s.worker_change = 2
        /\ Len(frame[f].hired) = 2
        /\ Len(frame[f].applicants) = Len(frame[f].entry.applicants) - 2

\* C5: hire(applicants, wage) returns (hired, remaining, next_wage) with
\* remaining = vacancies at entry - len(hired); when remaining > 0 the
\* applicants are exhausted and next_wage = wage + wage_increment, otherwise
\* next_wage = wage; with at least as many applicants as vacancies all
\* vacancies are filled, remaining is 0 and the wage is unchanged.
C5_HireReturn ==
    \A f \in Firms :
        Done(f, "hire") =>
            LET fr == frame[f]
                v == fr.entry.s.worker_change
                hired == fr.ret[1]
                remaining == fr.ret[2]
                next_wage == fr.ret[3]
            IN  /\ hired = fr.hired
                /\ remaining = v - Len(hired)
                /\ remaining > 0 =>
                       /\ fr.applicants = <<>>
                       /\ next_wage = fr.entry.wage + param[f].wage_increment
                /\ remaining <= 0 => next_wage = fr.entry.wage
                /\ (v >= 0 /\ Len(fr.entry.applicants) >= v) =>
                       /\ Len(hired) = v
                       /\ remaining = 0
                       /\ next_wage = fr.entry.wage

\* a hire() call with two vacancies and one applicant has returned: one hired,
\* one vacancy left, the wage raised
C5_Witness ==
    \E f \in Firms :
        /\ Done(f, "hire")
        /\ frame[f].entry.s.worker_change = 2
        /\ Len(frame[f].entry.applicants) = 1
        /\ Len(frame[f].ret[1]) = 1
        /\ frame[f].ret[2] = 1
        /\ frame[f].ret[3] = frame[f].entry.wage + param[f].wage_increment

\* a hire() call with as many applicants as vacancies has returned
C5_WitnessFilled ==
    \E f \in Firms :
        /\ Done(f, "hire")
        /\ frame[f].entry.s.worker_change = 2
        /\ Len(frame[f].entry.applicants) = 2
        /\ frame[f].ret[2] = 0

\* a purchase_equipment or purchase_materials call of f has returned
Purchased(f) ==
    frame[f].pc = "done" /\ frame[f].op \in {"purchase_equipment", "purchase_materials"}

\* the shortfall the purchase of frame[f] was to cover: target minus stock at
\* the call (the materials target is that of the adjusted desired_supply)
Shortfall(f) ==
    IF frame[f].op = "purchase_equipment"
    THEN frame[f].entry.s.desired_equipment - frame[f].entry.s.equipment
    ELSE param[f].material_cost_per_good * firm[f].desired_supply
             - frame[f].entry.s.materials

\* the stock the purchase of frame[f] has added
Bought(f) ==
    IF frame[f].op = "purchase_equipment"
    THEN firm[f].equipment - frame[f].entry.s.equipment
    ELSE firm[f].materials - frame[f].entry.s.materials

\* C6: for purchase_equipment and purchase_materials, with any supplier price
\* >= 0 and supply >= 0 and any cash (negative too), the purchased quantity is
\* at most the supplier's supply, its cost is at most the cash the firm had
\* (nothing is bought on negative cash at a price above zero), and cash after
\* the call is cash before minus quantity * price.
C6_PurchaseWithinMeans ==
    \A f \in Firms :
        Purchased(f) =>
            LET fr == frame[f]
                to_purchase == fr.ret[2]
                cost == RatMul(RatInt(to_purchase), fr.entry.price)
            IN  /\ to_purchase = Bought(f)
                /\ to_purchase <= fr.entry.supply
                /\ fr.entry.price.n > 0 =>
                       RatLeq(cost, RatMax(RatInt(0), fr.entry.s.cash))
                /\ firm[f].cash = RatSub(fr.entry.s.cash, cost)

\* a purchase was cut by the firm's cash, below the supply and the shortfall
C6_Witness ==
    \E f \in Firms :
        /\ Purchased(f)
        /\ frame[f].ret[2] > 0
        /\ frame[f].ret[2] < frame[f].entry.supply
        /\ frame[f].ret[2] < Shortfall(f)

\* C7: when the cost of the full shortfall is not zero, the purchased quantity
\* is min(supply, floor(budget / price)) with budget = clamp(cash, 0, shortfall
\* * price): it is at most the supply, its cost is at most the budget, and if it
\* is below the supply one unit more would cost more than the budget; cash
\* falls by purchased * price.
C7_PurchaseQuantity ==
    \A f \in Firms :
        Purchased(f) =>
            LET fr == frame[f]
                price == fr.entry.price
                purchased == fr.ret[2]
                total == RatMul(RatInt(Shortfall(f)), price)
                budget == RatMax(RatInt(0), RatMin(fr.entry.s.cash, total))
            IN  total.n # 0 =>
                    /\ purchased <= fr.entry.supply
                    /\ RatLeq(RatMul(RatInt(purchased), price), budget)
                    /\ purchased < fr.entry.supply =>
                           ~RatLeq(RatMul(RatInt(purchased + 1), price), budget)
                    /\ firm[f].cash =
                           RatSub(fr.entry.s.cash, RatMul(RatInt(purchased), price))

\* the scenario of the specification: cash 100, material price 10, required
\* materials 20, no materials held, supply 50: 10 units bought, cash 0 left
C7_Witness ==
    \E f \in Firms :
        /\ Done(f, "purchase_materials")
        /\ frame[f].entry.s.cash = RatInt(100)
        /\ frame[f].entry.price = RatInt(10)
        /\ frame[f].entry.supply = 50
        /\ frame[f].entry.s.materials = 0
        /\ Shortfall(f) = 20
        /\ frame[f].ret[2] = 10
        /\ firm[f].cash = RatInt(0)

\* the rules of the outcome table, in its order
Rule(k, s) ==
    CASE k = 0 -> s.n_sold = 0
      [] k = 1 -> s.n_sold > 0 /\ s.leftover > 0
      [] k = 2 -> s.n_sold > 0 /\ s.leftover = 0 /\ s.profit <= 0
      [] k = 3 -> s.n_sold > 0 /\ s.leftover = 0 /\ s.profit > 0
                  /\ s.profit < s.prev_profit
      [] k = 4 -> s.n_sold > 0 /\ s.leftover = 0 /\ s.profit > 0
                  /\ s.profit >= s.prev_profit

\* C8: in every state reached through produce, sell and set_production_target
\* from any profit and previous profit, n_sold and leftover are not negative,
\* exactly one of the five rules fires and the classifier returns its number,
\* a value in 0..4; no set_production_target is aborted for want of a state.
C8_ClassificationTotal ==
    \A f \in Firms :
        /\ firm[f].n_sold >= 0
        /\ firm[f].leftover >= 0
        /\ Cardinality({k \in 0..4 : Rule(k, firm[f])}) = 1
        /\ curren(firm[f]) \in 0..4
        /\ Rule(curren(firm[f]), firm[f])
        /\ Done(f, "curren") => frame[f].ret[1] = curren(firm[f])
        /\ frame[f].pc # "failed"

\* the classifier has answered 3: sold out at a profit below the previous one
C8_Witness ==
    \E f \in Firms :
        /\ Done(f, "curren")
        /\ frame[f].ret[1] = 3
        /\ firm[f].n_sold > 0

\* C9: after produce() the supply is min(desired_supply, production_capacity),
\* so never more than the capacity, also when the capacity is 0.
C9_ProduceWithinCapacity ==
    \A f \in Firms :
        Done(f, "produce") =>
            /\ frame[f].ret[1] =
                   Min(frame[f].entry.s.desired_supply,
                       _production_capacity(frame[f].entry.s, param[f]))
            /\ firm[f].supply = frame[f].ret[1]

\* C10: the capacity of a goods-producing firm is at most
\* floor(total_labor / labor_cost_per_good) and at most
\* floor(materials / material_cost_per_good), where total_labor =
\* labor_per_worker * workers + min(workers, equipment) * labor_per_equipment.
C10_CapacityWithinBothLimits ==
    \A f \in Firms :
        Done(f, "_production_capacity") =>
            LET s == firm[f]
                p == param[f]
                n == Len(s.workers)
                total_labor == p.labor_per_worker * n
                                   + Min(n, s.equipment) * p.labor_per_equipment
            IN  /\ frame[f].ret[1] <= total_labor \div p.labor_cost_per_good
                /\ frame[f].ret[1] <= s.materials \div p.material_cost_per_good
                /\ frame[f].ret[1] >= 0

\* capacity was read where the materials bind, and where the labor binds
C10_Witness ==
    \E f \in Firms :
        /\ Done(f, "_production_capacity")
        /\ frame[f].ret[1] > 0
        /\ frame[f].ret[1] = firm[f].materials \div param[f].material_cost_per_good
        /\ frame[f].ret[1] <
               _labor(firm[f], param[f]) \div param[f].labor_cost_per_good

\* firm f issues the hire instruction of its current iteration in this step
HireInstructed(f) == frame[f].pc = "hire_call" /\ frame'[f].pc = "hire_resume"

\* C12: in a hire() iteration for a worker with an employer, the employer's
\* fire of the worker (removal from its roster, quit notification) is complete
\* before the hire instruction is issued; under any interleaving, the hire
\* instruction is never issued for a worker who is employed and has not been
\* fired by that employer.
C12_FireBeforeHire ==
    [][\A f \in Firms :
          HireInstructed(f) =>
              LET w == frame[f].worker
              IN  /\ frame[f].employer # None =>
                         /\ w \in Range(frame[f].quits)
                         /\ w \notin Range(firm[frame[f].employer].workers)
                  /\ person[w].employer = None
                  /\ Employers(w) = {}]_vars

\* C13: a set_production_target() call of a firm that runs alone, with
\* optimizer target t (clamped to >= 0) and roster size r at entry: if t < r
\* exactly r - t distinct workers of the roster are fired, the roster size on
\* return is t and the returned vacancy count is 0; if t >= r no worker is
\* fired and the vacancy count is t - r; the vacancy count is never negative.
C13_TargetReached ==
    \A f \in Firms :
        frame[f].op = "set_production_target" =>
            LET fr == frame[f]
                t == Max(fr.entry.n_workers, 0)
                r == Len(fr.entry.s.workers)
            IN  /\ fr.pc # "failed"
                /\ NoDuplicates(fr.quits)
                /\ Range(fr.quits) \subseteq Range(fr.entry.s.workers)
                /\ Len(fr.quits) <= Max(r - t, 0)
                /\ fr.pc = "done" =>
                       /\ fr.ret[1] >= 0
                       /\ t < r =>
                              /\ Len(fr.quits) = r - t
                              /\ Len(firm[f].workers) = t
                              /\ fr.ret[1] = 0
                       /\ t >= r =>
                              /\ fr.quits = <<>>
                              /\ firm[f].workers = fr.entry.s.workers
                              /\ fr.ret[1] = t - r

\* a set_production_target() call with target 0 on a roster of two has
\* returned: both workers fired, no vacancy
C13_Witness ==
    \E f \in Firms :
        /\ Done(f, "set_production_target")
        /\ Len(frame[f].entry.s.workers) = 2
        /\ frame[f].entry.n_workers <= 0
        /\ Len(frame[f].quits) = 2
        /\ firm[f].workers = <<>>
        /\ frame[f].ret[1] = 0

\* C14: set_production_target() classifies the outcome on the state in which
\* leftover is the supply left unsold and prev_profit the profit of the
\* previous step, with n_sold not yet reset; on return supply, materials,
\* n_sold, revenue and costs are 0, leftover is the supply at entry and
\* prev_profit the profit at entry.
C14_AssessThenReset ==
    \A f \in Firms :
        frame[f].op = "set_production_target" =>
            LET fr == frame[f]
                assessed == [fr.entry.s EXCEPT !.leftover = fr.entry.s.supply,
                                               !.prev_profit = fr.entry.s.profit]
            IN  /\ fr.state \in 0..4
                /\ Rule(fr.state, assessed)
                /\ fr.pc = "done" =>
                       /\ firm[f].supply = 0
                       /\ firm[f].materials = 0
                       /\ firm[f].n_sold = 0
                       /\ firm[f].revenue = RatInt(0)
                       /\ firm[f].costs = RatInt(0)
                       /\ firm[f].leftover = fr.entry.s.supply
                       /\ firm[f].prev_profit = fr.entry.s.profit

\* a set_production_target() call has returned that was made after a sale,
\* with unsold supply, and with a profit above the previous profit on record
C14_Witness ==
    \E f \in Firms :
        /\ Done(f, "set_production_target")
        /\ frame[f].entry.s.n_sold > 0
        /\ frame[f].entry.s.supply > 0
        /\ frame[f].entry.s.leftover = 0
        /\ frame[f].entry.s.profit > frame[f].entry.s.prev_profit
        /\ frame[f].state = 1
        /\ firm[f].leftover > 0

\* C15: supply is never negative; each sell(quantity) sells n = min(supply,
\* quantity), which is no more than the stock, leaves supply + n_sold unchanged
\* and raises cash by exactly price * n, so the sales after a produce() never
\* add up to more than was produced.
C15_SellWithinSupply ==
    \A f \in Firms :
        /\ firm[f].supply >= 0
        /\ Done(f, "sell") =>
               LET fr == frame[f]
                   n == fr.ret[1]
               IN  /\ n = Min(fr.entry.s.supply, fr.entry.quantity)
                   /\ n <= fr.entry.s.supply
                   /\ n >= 0
                   /\ firm[f].supply + firm[f].n_sold
                          = fr.entry.s.supply + fr.entry.s.n_sold
                   /\ firm[f].n_sold = fr.entry.s.n_sold + n
                   /\ firm[f].cash
                          = RatAdd(fr.entry.s.cash, RatMul(fr.entry.s.price, RatInt(n)))

\* a sell() met a demand above the stock at a price above 0: the whole stock
\* is sold and none is left
C15_Witness ==
    \E f \in Firms :
        /\ Done(f, "sell")
        /\ frame[f].entry.s.supply > 0
        /\ frame[f].entry.quantity > frame[f].entry.s.supply
        /\ frame[f].entry.s.price.n > 0
        /\ frame[f].ret[1] = frame[f].entry.s.supply
        /\ firm[f].supply = 0

\* the target the purchase of frame[f] bought towards, as it stands after it
Target(f) ==
    IF frame[f].op = "purchase_equipment"
    THEN firm[f].desired_equipment
    ELSE param[f].material_cost_per_good * firm[f].desired_supply

\* the stock the purchase of frame[f] added to, as it stands after it
Stock(f) ==
    IF frame[f].op = "purchase_equipment" THEN firm[f].equipment ELSE firm[f].materials

\* C16: after any sequence of set_production_target and purchase calls the
\* stock held is at most the target (equipment <= desired_equipment, materials
\* <= the materials desired_supply requires), no call lowers the equipment,
\* the purchased quantity is >= 0, and the shortfall a purchase returns is >= 0
\* and equals the target minus the stock after the purchase.
C16_StockWithinTarget ==
    \A f \in Firms :
        /\ firm[f].equipment <= firm[f].desired_equipment
        /\ firm[f].materials <= param[f].material_cost_per_good * firm[f].desired_supply
        /\ frame[f].op # "none" => firm[f].equipment >= frame[f].entry.s.equipment
        /\ Purchased(f) =>
               /\ frame[f].ret[2] >= 0
               /\ frame[f].ret[1] >= 0
               /\ frame[f].ret[1] = Target(f) - Stock(f)

\* a purchase found more on offer than the shortfall: it bought exactly the
\* shortfall, and the stock stands at the target
C16_Witness ==
    \E f \in Firms :
        /\ Purchased(f)
        /\ frame[f].ret[2] > 0
        /\ frame[f].ret[2] < frame[f].entry.supply
        /\ frame[f].ret[1] = 0
        /\ Stock(f) = Target(f)

\* C17: in every state reached through set_production_target,
\* purchase_materials, produce and sell in any order, of any firm variant,
\* desired_supply >= 1.
C17_DesiredSupplyAtLeastOne ==
    \A f \in Firms : firm[f].desired_supply >= 1

\* C17 as amended: desired_supply >= 0 in every state, and >= 1 on return from
\* set_production_target and in every state of a firm without material
\* dependency; purchase_materials lowers it to the labor capacity at the
\* target equipment when that is smaller, down to 0, and the other operations
\* leave it as it is.
C17_DesiredSupplyFloor ==
    \A f \in Firms :
        LET fr == frame[f]
            s == fr.entry.s
            n == Len(s.workers)
            capacity_given_labor ==
                (param[f].labor_per_worker * n
                     + Min(n, s.desired_equipment) * param[f].labor_per_equipment)
                    \div param[f].labor_cost_per_good
        IN  /\ firm[f].desired_supply >= 0
            /\ param[f].kind = "Firm" => firm[f].desired_supply >= 1
            /\ Done(f, "set_production_target") => firm[f].desired_supply >= 1
            /\ Done(f, "purchase_materials") =>
                   firm[f].desired_supply = Min(s.desired_supply, capacity_given_labor)
            /\ fr.op \in {"hire", "produce", "sell", "purchase_equipment"} =>
                   firm[f].desired_supply = s.desired_supply

\* set_production_target() was called with desired_supply 0, as
\* purchase_materials had left it, and an action that lowers the supply: it
\* returned with desired_supply 1
C17_Witness ==
    \E f \in Firms :
        /\ Done(f, "set_production_target")
        /\ frame[f].prev_op = "purchase_materials"
        /\ frame[f].entry.s.desired_supply = 0
        /\ firm[f].desired_supply = 1

\* C18: under any interleaving of hire() rounds and set_production_target()
\* firing loops, every fire instruction names a worker of the roster it is
\* executed on and every pick of a worker to fire is made from a non-empty
\* roster, so no negotiation ends with an exception part-way.
C18_NoNegotiationFails ==
    \A f \in Firms : frame[f].pc # "failed"

\* the step that state s closes sold out, at a price above the cost per unit
SoldOutAboveCost(s) ==
    /\ s.n_sold > 0
    /\ s.supply = 0
    /\ ~RatLeq(RatMul(s.price, RatInt(s.n_sold)), s.costs)

\* C19: the profit field reflects the step just finished: when
\* set_production_target() is called after a step in which the firm sold out
\* at a price above its cost per unit, the profit is above 0 and the outcome
\* is classified as state 3 or 4.
C19_ProfitFeedsBack ==
    \A f \in Firms :
        (frame[f].op = "set_production_target" /\ SoldOutAboveCost(frame[f].entry.s)) =>
            /\ frame[f].entry.s.profit > 0
            /\ frame[f].state \in {3, 4}

\* C20: a hire() call makes at most min(vacancies, number of applicants)
\* iterations, each iteration removes exactly one applicant and lowers
\* worker_change by exactly one, and the call ends, with worker_change = 0 or
\* the applicant pool empty.
C20_HireTerminates ==
    \A f \in Firms :
        frame[f].op = "hire" =>
            LET fr == frame[f]
                v == fr.entry.s.worker_change
            IN  /\ Len(fr.hired) <= Min(Max(v, 0), Len(fr.entry.applicants))
                /\ Len(fr.applicants) = Len(fr.entry.applicants) - Len(fr.hired)
                /\ firm[f].worker_change = v - Len(fr.hired)
                /\ fr.pc \in {"done", "failed"} =>
                       firm[f].worker_change = 0 \/ fr.applicants = <<>>

====
